---- MODULE Spec2Model ----
(***************************************************************************)
(* A model of promptfile: the message extractor (utils._extract_messages), *)
(* the Prompt document (load, format, dump, deepcopy) and the client       *)
(* registry (BaseClient, SingletonClient).                                  *)
(*                                                                         *)
(* Text is a sequence of tokens.  A token is either a single character     *)
(* ("a", " ", "{", "0") or a piece of markup that the regular expressions  *)
(* of the program match as a whole ("<user>", "<![CDATA[", "---").  No     *)
(* token is a proper part of a piece of markup, so matching over tokens    *)
(* agrees with matching over characters.                                   *)
(***************************************************************************)
EXTENDS Integers, Sequences, FiniteSets, TLC

VARIABLES
    prompt_section,   \* _extract_messages: its argument
    extracted,        \* _extract_messages: its outcome
    content,          \* Prompt.load: its argument
    prompt,           \* a Prompt: the outcome of Prompt.load, or one constructed
    dumped,           \* Prompt.dump of prompt
    reloaded,         \* Prompt.load of dumped
    heap,             \* the objects: Prompt, list and dict objects by address
    kwargs,           \* Prompt.format: its keyword arguments
    returned,         \* Prompt.format: the address of the Prompt it returned, or 0
    original,         \* the value of the Prompt self when it was constructed
    edits,            \* the number of changes made to the returned Prompt
    cls_instance,     \* SingletonClient._instance: 0 (None) or the index of a client
    cls_lock,         \* SingletonClient._lock: 0 (free) or the thread that holds it
    clients,          \* the BaseClient objects constructed so far
    pc,               \* where each thread is in SingletonClient.instance / get
    call,             \* the call each thread is making
    first_check,      \* what the unlocked check of each thread's call saw
    result,           \* the outcome of each thread's last call
    calls             \* the number of calls made so far

vars == <<prompt_section, extracted, content, prompt, dumped, reloaded,
          heap, kwargs, returned, original, edits,
          cls_instance, cls_lock, clients, pc, call, first_check, result, calls>>

(***************************************************************************)
(* Bounds of the model.                                                    *)
(***************************************************************************)
MaxBody == 5
MaxHead == 3
MaxLoadBody == 4
MaxRoundTripBody == 5
MaxMetadata == 2
MaxContent == 2
MaxMessages == 2
MaxSegments == 3
MaxEdits == 1
NumThreads == 2
MaxCalls == 2
MaxSpans == 4

(***************************************************************************)
(* Text helpers.                                                           *)
(***************************************************************************)
Roles == {"system", "user", "assistant"}

OpenTag(r) ==
    CASE r = "system" -> "<system>"
      [] r = "user" -> "<user>"
      [] r = "assistant" -> "<assistant>"

CloseTag(r) ==
    CASE r = "system" -> "</system>"
      [] r = "user" -> "</user>"
      [] r = "assistant" -> "</assistant>"

CdataOpen == "<![CDATA["
CdataClose == "]]>"
PlaceholderToken == "CDATA_PLACEHOLDER_"

DigitChars == <<"0", "1", "2", "3", "4", "5", "6", "7", "8", "9">>
IsDigit(c) == \E d \in 1..10 : DigitChars[d] = c
DigitValue(c) == (CHOOSE d \in 1..10 : DigitChars[d] = c) - 1

\* str(n) for a natural number n
RECURSIVE StrOfNat(_)
StrOfNat(n) ==
    IF n < 10 THEN <<DigitChars[n + 1]>>
    ELSE StrOfNat(n \div 10) \o <<DigitChars[(n % 10) + 1]>>

\* int(s) for a run of digits s
RECURSIVE IntOfDigits(_)
IntOfDigits(s) ==
    IF s = <<>> THEN 0
    ELSE 10 * IntOfDigits(SubSeq(s, 1, Len(s) - 1)) + DigitValue(s[Len(s)])

IsSpace(c) == c \in {" ", "\n", "\t"}

\* str.strip()
RECURSIVE Strip(_)
Strip(s) ==
    IF s = <<>> THEN s
    ELSE IF IsSpace(s[1]) THEN Strip(Tail(s))
    ELSE IF IsSpace(s[Len(s)]) THEN Strip(SubSeq(s, 1, Len(s) - 1))
    ELSE s

MinOf(S) == CHOOSE x \in S : \A y \in S : x <= y

\* all sequences over S of length at most n
RECURSIVE SeqsUpTo(_, _)
SeqsUpTo(S, n) ==
    IF n = 0 THEN {<<>>}
    ELSE LET shorter == SeqsUpTo(S, n - 1)
         IN  shorter \cup {Append(s, x) : s \in shorter, x \in S}

(***************************************************************************)
(* utils._extract_messages                                                 *)
(***************************************************************************)

\* re.sub(r"<!\[CDATA\[(.*?)\]\]>", replace_cdata, prompt_section, DOTALL):
\* left to right, each wrapper up to the nearest closing marker becomes
\* CDATA_PLACEHOLDER_<index> and its inside is appended to cdata_sections.
RECURSIVE SubCdata(_, _, _, _)
SubCdata(s, i, out, secs) ==
    IF i > Len(s) THEN [text |-> out, cdata_sections |-> secs]
    ELSE IF s[i] = CdataOpen /\ \E j \in (i + 1)..Len(s) : s[j] = CdataClose
    THEN LET j == MinOf({k \in (i + 1)..Len(s) : s[k] = CdataClose})
         IN  SubCdata(s, j + 1,
                      out \o <<PlaceholderToken>> \o StrOfNat(Len(secs)),
                      Append(secs, SubSeq(s, i + 1, j - 1)))
    ELSE SubCdata(s, i + 1, Append(out, s[i]), secs)

replace_cdata(s) == SubCdata(s, 1, <<>>, <<>>)

\* re.findall(r"<(system|user|assistant)>(.*?)</\1>", prompt_section, DOTALL):
\* non-overlapping matches, left to right, each closed by the nearest closing
\* tag of the same role.
RECURSIVE FindTags(_, _, _)
FindTags(s, i, acc) ==
    IF i > Len(s) THEN acc
    ELSE IF \E r \in Roles :
                s[i] = OpenTag(r) /\ \E j \in (i + 1)..Len(s) : s[j] = CloseTag(r)
    THEN LET r == CHOOSE q \in Roles : s[i] = OpenTag(q)
             j == MinOf({k \in (i + 1)..Len(s) : s[k] = CloseTag(r)})
         IN  FindTags(s, j + 1,
                      Append(acc, [role |-> r, content |-> SubSeq(s, i + 1, j - 1)]))
    ELSE FindTags(s, i + 1, acc)

\* the end of the run of digits that starts at position i of s
RECURSIVE DigitsEnd(_, _)
DigitsEnd(s, i) ==
    IF i < Len(s) /\ IsDigit(s[i + 1]) THEN DigitsEnd(s, i + 1) ELSE i

\* re.sub(r"CDATA_PLACEHOLDER_(\d+)", lambda m: cdata_sections[int(m.group(1))],
\* content): the index is the longest run of digits after the token; an
\* index outside cdata_sections raises IndexError.
RECURSIVE RestoreCdata(_, _, _, _)
RestoreCdata(s, i, out, secs) ==
    IF i > Len(s) THEN [raised |-> "none", text |-> out]
    ELSE IF s[i] = PlaceholderToken /\ i < Len(s) /\ IsDigit(s[i + 1])
    THEN LET k == DigitsEnd(s, i + 1)
             n == IntOfDigits(SubSeq(s, i + 1, k))
         IN  IF n >= Len(secs) THEN [raised |-> "IndexError", text |-> <<>>]
             ELSE RestoreCdata(s, k + 1, out \o secs[n + 1], secs)
    ELSE RestoreCdata(s, i + 1, Append(out, s[i]), secs)

\* the loop over the matches: restore, strip, append; the first exception
\* ends the call
RECURSIVE BuildMessages(_, _, _)
BuildMessages(matches, secs, acc) ==
    IF matches = <<>> THEN [raised |-> "none", messages |-> acc]
    ELSE LET m == Head(matches)
             restored == RestoreCdata(m.content, 1, <<>>, secs)
         IN  IF restored.raised # "none"
             THEN [raised |-> restored.raised, messages |-> <<>>]
             ELSE BuildMessages(Tail(matches), secs,
                      Append(acc, [role |-> m.role,
                                   content |-> Strip(restored.text)]))

extract_messages(s) ==
    LET sub == replace_cdata(s)
        matches == FindTags(sub.text, 1, <<>>)
    IN  BuildMessages(matches, sub.cdata_sections, <<>>)

(***************************************************************************)
(* The YAML header.  A value is [type, text]: None, a str or an int, with  *)
(* text the characters of the str or the digits of the int.  ":" is the    *)
(* mapping indicator (colon and space), "-" the sequence indicator (dash   *)
(* and space), "'" a quote, "---" three dashes.                            *)
(***************************************************************************)
NoneValue == [type |-> "none", text |-> <<>>]
StrValue(t) == [type |-> "str", text |-> t]
IntValue(n) == [type |-> "int", text |-> StrOfNat(n)]

\* the value a plain or quoted YAML scalar resolves to
ParseScalar(t) ==
    IF t = <<>> \/ t = <<"null">> \/ t = <<"~">> THEN NoneValue
    ELSE IF Len(t) >= 2 /\ t[1] = "'" /\ t[Len(t)] = "'"
    THEN StrValue(SubSeq(t, 2, Len(t) - 1))
    ELSE IF \A i \in 1..Len(t) : IsDigit(t[i]) THEN IntValue(IntOfDigits(t))
    ELSE StrValue(t)

\* the scalar yaml.dump writes for a value: a str that would resolve to
\* something else when plain is quoted
DumpScalar(v) ==
    CASE v.type = "none" -> <<"null">>
      [] v.type = "int" -> v.text
      [] v.type = "str" ->
            IF ParseScalar(v.text).type # "str" \/ v.text[1] = "'"
            THEN <<"'">> \o v.text \o <<"'">>
            ELSE v.text

\* str.split("\n")
RECURSIVE SplitLines(_, _, _)
SplitLines(s, cur, acc) ==
    IF s = <<>> THEN Append(acc, cur)
    ELSE IF Head(s) = "\n" THEN SplitLines(Tail(s), <<>>, Append(acc, cur))
    ELSE SplitLines(Tail(s), Append(cur, Head(s)), acc)

HasToken(line, t) == \E i \in 1..Len(line) : line[i] = t

LineKind(line) ==
    IF line = <<>> THEN "blank"
    ELSE IF line = <<"---">> THEN "marker"
    ELSE IF line[1] = "-" /\ ~HasToken(Tail(line), ":") /\ ~HasToken(Tail(line), "-")
    THEN "item"
    ELSE IF ~HasToken(line, ":") /\ ~HasToken(line, "-") /\ ~HasToken(line, "---")
    THEN "scalar"
    ELSE IF /\ Len(line) >= 2 /\ line[2] = ":"
            /\ line[1] \notin {":", "-", "---", "'"}
            /\ ~HasToken(SubSeq(line, 3, Len(line)), ":")
            /\ ~HasToken(SubSeq(line, 3, Len(line)), "-")
    THEN "entry"
    ELSE "malformed"

\* dict[key] = value: a key already present keeps its place
RECURSIVE SetItem(_, _, _)
SetItem(entries, k, v) ==
    IF entries = <<>> THEN <<[key |-> k, value |-> v]>>
    ELSE IF Head(entries).key = k THEN <<[key |-> k, value |-> v]>> \o Tail(entries)
    ELSE <<Head(entries)>> \o SetItem(Tail(entries), k, v)

RECURSIVE EntriesOf(_, _)
EntriesOf(lines, acc) ==
    IF lines = <<>> THEN acc
    ELSE LET l == Head(lines)
         IN  EntriesOf(Tail(lines),
                 SetItem(acc, l[1], ParseScalar(SubSeq(l, 3, Len(l)))))

RECURSIVE SelectLines(_, _)
SelectLines(lines, kinds) ==
    IF lines = <<>> THEN <<>>
    ELSE IF LineKind(Head(lines)) \in kinds
    THEN <<Head(lines)>> \o SelectLines(Tail(lines), kinds)
    ELSE SelectLines(Tail(lines), kinds)

\* yaml.safe_load(text) on a header of block-style lines: a mapping of
\* "key: scalar" lines, a sequence of "- scalar" lines, a plain scalar, or
\* nothing; anything else is a yaml.YAMLError.
safe_load(text) ==
    LET all == SplitLines(text, <<>>, <<>>)
        body == IF all # <<>> /\ LineKind(all[1]) = "marker" THEN Tail(all) ELSE all
        lines == SelectLines(body, {"entry", "item", "scalar", "marker", "malformed"})
        kinds == {LineKind(lines[i]) : i \in 1..Len(lines)}
    IN  IF lines = <<>> THEN [kind |-> "none", entries |-> <<>>]
        ELSE IF kinds = {"entry"}
        THEN [kind |-> "dict", entries |-> EntriesOf(lines, <<>>)]
        ELSE IF kinds = {"item"} THEN [kind |-> "list", entries |-> <<>>]
        ELSE IF LineKind(lines[1]) = "scalar" /\ kinds \subseteq {"scalar", "item"}
        THEN [kind |-> "scalar", entries |-> <<>>]
        ELSE [kind |-> "YAMLError", entries |-> <<>>]

\* yaml.dump(mapping, default_flow_style=False, sort_keys=False)
RECURSIVE yaml_dump(_)
yaml_dump(entries) ==
    IF entries = <<>> THEN <<>>
    ELSE <<Head(entries).key, ":">> \o DumpScalar(Head(entries).value) \o <<"\n">>
         \o yaml_dump(Tail(entries))

(***************************************************************************)
(* Prompt.load                                                             *)
(***************************************************************************)
EmptyDoc == [model |-> NoneValue, metadata |-> <<>>, messages |-> <<>>]

RECURSIVE SkipSpace(_, _)
SkipSpace(s, i) == IF i <= Len(s) /\ IsSpace(s[i]) THEN SkipSpace(s, i + 1) ELSE i

\* re.match(r"^\s*---\n(.*?\n)---\n(.*)$", content, re.DOTALL)
FrontMatter(s) ==
    LET i == SkipSpace(s, 1)
        ends == {j \in (i + 2)..(Len(s) - 2) :
                    s[j] = "\n" /\ s[j + 1] = "---" /\ s[j + 2] = "\n"}
    IN  IF i + 1 <= Len(s) /\ s[i] = "---" /\ s[i + 1] = "\n" /\ ends # {}
        THEN LET j == MinOf(ends)
             IN  [matched |-> TRUE,
                  yaml_section |-> SubSeq(s, i + 2, j),
                  rest |-> SubSeq(s, j + 3, Len(s))]
        ELSE [matched |-> FALSE, yaml_section |-> <<>>, rest |-> <<>>]

\* config.pop("model", None)
PopModel(entries) ==
    IF \E i \in 1..Len(entries) : entries[i].key = "model"
    THEN (CHOOSE e \in {entries[i] : i \in 1..Len(entries)} : e.key = "model").value
    ELSE NoneValue

WithoutModel(entries) == SelectSeq(entries, LAMBDA e : e.key # "model")

Raised(kind) == [raised |-> kind, doc |-> EmptyDoc]

load(s) ==
    LET match == FrontMatter(s)
        config == safe_load(Strip(match.yaml_section))
        msgs == extract_messages(match.rest)
    IN  IF ~match.matched THEN Raised("ValueError")
        ELSE IF config.kind = "YAMLError" THEN Raised("YAMLError")
        ELSE IF msgs.raised # "none" THEN Raised(msgs.raised)
        ELSE IF config.kind \in {"none", "scalar"} THEN Raised("AttributeError")
        ELSE IF config.kind = "list" THEN Raised("TypeError")
        ELSE [raised |-> "none",
              doc |-> [model |-> PopModel(config.entries),
                       metadata |-> WithoutModel(config.entries),
                       messages |-> msgs.messages]]

(***************************************************************************)
(* Prompt.dump                                                             *)
(***************************************************************************)
RECURSIVE Update(_, _)
Update(entries, more) ==
    IF more = <<>> THEN entries
    ELSE Update(SetItem(entries, Head(more).key, Head(more).value), Tail(more))

RECURSIVE messages_content(_)
messages_content(msgs) ==
    IF msgs = <<>> THEN <<>>
    ELSE LET m == Head(msgs)
             block == <<OpenTag(m.role), "\n">> \o m.content \o <<"\n", CloseTag(m.role)>>
         IN  IF Len(msgs) = 1 THEN block
             ELSE block \o <<"\n">> \o messages_content(Tail(msgs))

dump(d) ==
    LET yaml_content == Update(<<[key |-> "model", value |-> d.model]>>, d.metadata)
        yaml_header == yaml_dump(yaml_content)
    IN  <<"---", "\n">> \o yaml_header \o <<"---", "\n">>
        \o messages_content(d.messages) \o <<"\n">>

(***************************************************************************)
(* The extractor applied to every body of at most MaxBody tokens.          *)
(***************************************************************************)
BodyTokens ==
    {"<user>", "</user>", "<system>", "</system>", "<tool>", CdataOpen, CdataClose,
     PlaceholderToken, "0", "a", " "}

NotCalled == [raised |-> "not called", messages |-> <<>>]

NoPrompt == Raised("not called")
NoText == [called |-> FALSE, text |-> <<>>]

extractVars == <<prompt_section, extracted>>
loadVars == <<content, prompt, dumped, reloaded>>

formatVars == <<heap, kwargs, returned, original, edits>>
clientVars == <<cls_instance, cls_lock, clients, pc, call, first_check, result, calls>>

NoExtract == prompt_section = <<>> /\ extracted = NotCalled
NoFormat ==
    heap = <<>> /\ kwargs = <<>> /\ returned = 0 /\ original = EmptyDoc /\ edits = 0
NoClient ==
    /\ cls_instance = 0 /\ cls_lock = 0 /\ clients = <<>> /\ pc = <<>> /\ call = <<>>
    /\ first_check = <<>> /\ result = <<>> /\ calls = 0
NoLoad == content = <<>> /\ prompt = NoPrompt /\ dumped = NoText /\ reloaded = NoPrompt

InitExtract ==
    /\ prompt_section \in SeqsUpTo(BodyTokens, MaxBody)
    /\ extracted = NotCalled
    /\ NoLoad /\ NoFormat /\ NoClient

CallExtractMessages ==
    /\ extracted = NotCalled
    /\ extracted' = extract_messages(prompt_section)
    /\ UNCHANGED <<prompt_section, loadVars, formatVars, clientVars>>

NextExtract == CallExtractMessages

SpecExtract == InitExtract /\ [][NextExtract]_vars

(***************************************************************************)
(* Prompt.load applied to texts put together from front-matter lines and a *)
(* body; Prompt.dump of the document and Prompt.load of the dumped text.   *)
(***************************************************************************)
RECURSIVE Flatten(_)
Flatten(ss) == IF ss = <<>> THEN <<>> ELSE Head(ss) \o Flatten(Tail(ss))

HeadLines ==
    {<<"\n">>, <<"---", "\n">>, <<"model", ":", "v", "\n">>, <<"k", ":", "7", "\n">>,
     <<"v", "\n">>, <<"-", "v", "\n">>, <<"k", ":", "v", ":", "v", "\n">>}

LoadBodyTokens == {"<user>", "</user>", PlaceholderToken, "0"}

LoadInputs(head, body) ==
    {Flatten(h) \o b : h \in SeqsUpTo(HeadLines, head),
                       b \in SeqsUpTo(LoadBodyTokens, body)}

CallLoad ==
    /\ prompt = NoPrompt
    /\ prompt' = load(content)
    /\ UNCHANGED <<content, dumped, reloaded, extractVars, formatVars, clientVars>>

CallDump ==
    /\ prompt.raised = "none"
    /\ ~dumped.called
    /\ dumped' = [called |-> TRUE, text |-> dump(prompt.doc)]
    /\ UNCHANGED <<content, prompt, reloaded, extractVars, formatVars, clientVars>>

CallReload ==
    /\ dumped.called
    /\ reloaded = NoPrompt
    /\ reloaded' = load(dumped.text)
    /\ UNCHANGED <<content, prompt, dumped, extractVars, formatVars, clientVars>>

InitLoad ==
    /\ content \in LoadInputs(MaxHead, MaxLoadBody)
    /\ prompt = NoPrompt /\ dumped = NoText /\ reloaded = NoPrompt
    /\ NoExtract /\ NoFormat /\ NoClient

NextLoad == CallLoad

SpecLoad == InitLoad /\ [][NextLoad]_vars

\* the shape: optional whitespace, a "---" line, a header ending its line,
\* a "---" line, the body
HasShape(s) ==
    \E i \in 1..Len(s), j \in 1..Len(s) :
        /\ \A k \in 1..(i - 1) : IsSpace(s[k])
        /\ s[i] = "---" /\ i + 1 <= Len(s) /\ s[i + 1] = "\n"
        /\ j >= i + 2 /\ j + 2 <= Len(s)
        /\ s[j] = "\n" /\ s[j + 1] = "---" /\ s[j + 2] = "\n"

\* C4: Prompt.load returns a document or fails with a format error
\* (ValueError) or a configuration error (yaml.YAMLError) and nothing else;
\* the format error is raised exactly when the text lacks the shape, and a
\* header that is no mapping is a configuration error.
ParseOutcomes ==
    prompt # NoPrompt =>
        /\ prompt.raised \in {"none", "ValueError", "YAMLError"}
        /\ prompt.raised = "ValueError" <=> ~HasShape(content)

\* sanity: the format error alone is as specified
FormatErrorIffNoShape ==
    prompt # NoPrompt => (prompt.raised = "ValueError" <=> ~HasShape(content))


(***************************************************************************)
(* What the extractor is specified to return: a wrapper is one opaque unit *)
(* that stands for its inside, tags are looked for among the other tokens  *)
(* only, and the content of a block is the text between its tags with each *)
(* wrapper replaced by its inside, trimmed.                                *)
(***************************************************************************)
RECURSIVE WrapperUnits(_, _, _)
WrapperUnits(s, i, acc) ==
    IF i > Len(s) THEN acc
    ELSE IF s[i] = CdataOpen /\ \E j \in (i + 1)..Len(s) : s[j] = CdataClose
    THEN LET j == MinOf({k \in (i + 1)..Len(s) : s[k] = CdataClose})
         IN  WrapperUnits(s, j + 1,
                 Append(acc, [wrapped |-> TRUE, text |-> SubSeq(s, i + 1, j - 1)]))
    ELSE WrapperUnits(s, i + 1, Append(acc, [wrapped |-> FALSE, text |-> <<s[i]>>]))

IsTagUnit(u, tag) == ~u.wrapped /\ u.text = <<tag>>

RECURSIVE UnitsText(_)
UnitsText(us) == IF us = <<>> THEN <<>> ELSE Head(us).text \o UnitsText(Tail(us))

RECURSIVE VerbatimBlocks(_, _, _)
VerbatimBlocks(us, i, acc) ==
    IF i > Len(us) THEN acc
    ELSE IF \E r \in Roles :
                /\ IsTagUnit(us[i], OpenTag(r))
                /\ \E j \in (i + 1)..Len(us) : IsTagUnit(us[j], CloseTag(r))
    THEN LET r == CHOOSE q \in Roles : IsTagUnit(us[i], OpenTag(q))
             j == MinOf({k \in (i + 1)..Len(us) : IsTagUnit(us[k], CloseTag(r))})
         IN  VerbatimBlocks(us, j + 1,
                 Append(acc, [role |-> r,
                              content |-> Strip(UnitsText(SubSeq(us, i + 1, j - 1)))]))
    ELSE VerbatimBlocks(us, i + 1, acc)

VerbatimMessages(s) == VerbatimBlocks(WrapperUnits(s, 1, <<>>), 1, <<>>)

\* the body holds text shaped like the internal placeholder token, or a digit
\* right after a wrapper
RECURSIVE HasWrapperThenDigit(_, _)
HasWrapperThenDigit(us, i) ==
    IF i >= Len(us) THEN FALSE
    ELSE \/ us[i].wrapped /\ ~us[i + 1].wrapped /\ IsDigit(us[i + 1].text[1])
         \/ HasWrapperThenDigit(us, i + 1)

CollidesWithPlaceholder(s) ==
    \/ \E i \in 1..Len(s) : s[i] = PlaceholderToken
    \/ HasWrapperThenDigit(WrapperUnits(s, 1, <<>>), 1)

\* C3: the content of every matched block is the text between its tags with
\* each escape wrapper replaced by exactly its inside (trimmed), whatever
\* surrounds the wrappers or occurs in the body.
HasWrapper(s) ==
    LET us == WrapperUnits(s, 1, <<>>) IN \E i \in 1..Len(us) : us[i].wrapped

EscapeFidelity ==
    extracted # NotCalled /\ HasWrapper(prompt_section) =>
        extracted = [raised |-> "none", messages |-> VerbatimMessages(prompt_section)]

\* C7: _extract_messages returns a sequence for every body and never raises;
\* an empty body yields an empty sequence.
ExtractorNeverRaises ==
    extracted # NotCalled =>
        /\ extracted.raised = "none"
        /\ prompt_section = <<>> => extracted.messages = <<>>

\* sanity: away from the placeholder collisions the extractor is verbatim
FidelityWithoutCollision ==
    extracted # NotCalled /\ ~CollidesWithPlaceholder(prompt_section) =>
        extracted = [raised |-> "none", messages |-> VerbatimMessages(prompt_section)]

(***************************************************************************)
(* The extractor applied to bodies put together from at most MaxSpans      *)
(* segments: whole blocks of every role, an opening tag that is never      *)
(* closed, and text outside any block.                                     *)
(***************************************************************************)
SpanContents ==
    {<<>>, <<" ", "a">>, <<CdataOpen, "a", CdataClose>>, <<PlaceholderToken, "0">>}

Span(r, c) == <<OpenTag(r)>> \o c \o <<CloseTag(r)>>

Segments ==
    {Span(r, c) : r \in Roles, c \in SpanContents} \cup {<<OpenTag("user")>>, <<"a">>}

Bodies(n) == {Flatten(ss) : ss \in SeqsUpTo(Segments, n)}

InitOrder ==
    /\ prompt_section \in Bodies(MaxSpans)
    /\ extracted = NotCalled
    /\ NoLoad /\ NoFormat /\ NoClient

NextOrder == CallExtractMessages

SpecOrder == InitOrder /\ [][NextOrder]_vars

RolesOf(ms) == [i \in 1..Len(ms) |-> ms[i].role]

\* C11: the returned sequence lists exactly one message per matched
\* non-overlapping <role>...</role> span, in the order the spans open in the
\* body, each with the role of its tag and the content of its span trimmed of
\* leading and trailing whitespace.
OrderPreservation ==
    extracted.raised = "none" =>
        LET spans == VerbatimMessages(prompt_section)
        IN  /\ Len(extracted.messages) = Len(spans)
            /\ \A i \in 1..Len(spans) :
                   /\ extracted.messages[i].role = spans[i].role
                   /\ extracted.messages[i].content = spans[i].content

\* sanity: the number of messages and their roles are those of the spans, in
\* the order the spans open, whatever the contents are
SpansInOrder ==
    extracted.raised = "none" =>
        RolesOf(extracted.messages) = RolesOf(VerbatimMessages(prompt_section))

\* sanity: every returned content is trimmed
ContentsTrimmed ==
    \A i \in 1..Len(extracted.messages) :
        Strip(extracted.messages[i].content) = extracted.messages[i].content

\* sanity: tags in the order user, assistant, system, user
FourRolesBody ==
    Span("user", <<" ", "a">>) \o Span("assistant", <<>>)
        \o Span("system", <<CdataOpen, "a", CdataClose>>) \o Span("user", <<" ", "a">>)

FourRolesInOrder ==
    prompt_section = FourRolesBody /\ extracted # NotCalled =>
        /\ extracted.raised = "none"
        /\ RolesOf(extracted.messages) = <<"user", "assistant", "system", "user">>

FourRolesExtracted == prompt_section = FourRolesBody /\ extracted # NotCalled

(***************************************************************************)
(* load, dump, load again: texts with a valid front matter.                *)
(***************************************************************************)
RoundTripHeaders ==
    {<<"---", "\n", "model", ":", "v", "\n", "---", "\n">>,
     <<"---", "\n", "k", ":", "7", "\n", "---", "\n">>,
     <<"\n", "---", "\n", "model", ":", "v", "\n", "k", ":", "'", "null", "'", "\n",
       "---", "\n">>}

RoundTripBodyTokens == {"<user>", "</user>", CdataOpen, CdataClose, "a", " "}

InitRoundTrip ==
    /\ content \in {h \o b : h \in RoundTripHeaders,
                             b \in SeqsUpTo(RoundTripBodyTokens, MaxRoundTripBody)}
    /\ prompt = NoPrompt /\ dumped = NoText /\ reloaded = NoPrompt
    /\ NoExtract /\ NoFormat /\ NoClient

NextRoundTrip == CallLoad \/ CallDump \/ CallReload

SpecRoundTrip == InitRoundTrip /\ [][NextRoundTrip]_vars

\* C8: for every text Prompt.load accepts, loading the dump of the loaded
\* document gives the same model, metadata and ordered messages.
DumpLoadFixedPoint ==
    reloaded # NoPrompt => reloaded = prompt

\* sanity: the fixed point holds for bodies without an escape wrapper
FixedPointWithoutWrapper ==
    reloaded # NoPrompt /\ ~HasToken(content, CdataOpen) => reloaded = prompt

(***************************************************************************)
(* dump, load: documents constructed directly.                             *)
(***************************************************************************)
Distinct(entries) ==
    \A i, j \in 1..Len(entries) : entries[i].key = entries[j].key => i = j

DocModels == {NoneValue, StrValue(<<"null">>)}

DocMetadata(n) ==
    {m \in SeqsUpTo([key : {"k", "m"}, value : {StrValue(<<"7">>), IntValue(7)}], n) :
        Distinct(m)}

DocContentTokens == {"a", " ", "</user>", PlaceholderToken, "0"}

DocMessages(n, len) ==
    SeqsUpTo([role : {"user", "system"}, content : SeqsUpTo(DocContentTokens, len)], n)

InitDump ==
    /\ content = <<>>
    /\ prompt \in {[raised |-> "none",
                    doc |-> [model |-> mo, metadata |-> me, messages |-> ms]] :
                       mo \in DocModels, me \in DocMetadata(MaxMetadata),
                       ms \in DocMessages(MaxMessages, MaxContent)}
    /\ dumped = NoText /\ reloaded = NoPrompt
    /\ NoExtract /\ NoFormat /\ NoClient

NextDump == CallDump \/ CallReload

SpecDump == InitDump /\ [][NextDump]_vars

\* C1: for every document (model a string or absent, metadata a mapping,
\* messages of the three roles with arbitrary text), Prompt.load of its dump
\* has the same model, the same metadata in the same order and the same
\* messages.
RoundTrip ==
    reloaded # NoPrompt => reloaded = prompt

\* the content survives the round trip when it is trimmed and holds no tag,
\* wrapper or placeholder text
PlainContent(c) ==
    /\ Strip(c) = c
    /\ \A i \in 1..Len(c) : c[i] \in {"a", " ", "0"}

\* sanity: the round trip holds for plain contents
RoundTripPlain ==
    /\ reloaded # NoPrompt
    /\ \A i \in 1..Len(prompt.doc.messages) : PlainContent(prompt.doc.messages[i].content)
    => reloaded = prompt

(***************************************************************************)
(* Objects.  heap[a] is the object at address a: a Prompt (its messages    *)
(* and metadata fields hold the addresses of a list and a dict), a list    *)
(* (its items are values), a dict (keys and values) or a message dict.  A  *)
(* value is None, a str, an int or a reference [type "ref", text <<a>>].   *)
(***************************************************************************)
Ref(a) == [type |-> "ref", text |-> <<a>>]
Addr(v) == v.text[1]

PromptObj(mo, ms, me) == [kind |-> "Prompt", model |-> mo, messages |-> ms, metadata |-> me]
ListObj(items) == [kind |-> "list", items |-> items]
DictObj(keys, values) == [kind |-> "dict", keys |-> keys, values |-> values]
MessageObj(role, text) == [kind |-> "message", role |-> role, content |-> text]

\* copy.deepcopy: a new object for every object reached, values that are no
\* references as they are.  (No object of the model is reached twice, so
\* the memo of deepcopy plays no part.)
RECURSIVE DeepCopyObject(_, _)
RECURSIVE DeepCopyValues(_, _, _)
DeepCopyValues(h, vals, acc) ==
    IF vals = <<>> THEN [heap |-> h, values |-> acc]
    ELSE LET v == Head(vals)
         IN  IF v.type = "ref"
             THEN LET c == DeepCopyObject(h, Addr(v))
                  IN  DeepCopyValues(c.heap, Tail(vals), Append(acc, Ref(c.addr)))
             ELSE DeepCopyValues(h, Tail(vals), Append(acc, v))

DeepCopyObject(h, a) ==
    LET o == h[a]
    IN  CASE o.kind = "message" ->
                [heap |-> Append(h, o), addr |-> Len(h) + 1]
          [] o.kind = "list" ->
                LET c == DeepCopyValues(h, o.items, <<>>)
                IN  [heap |-> Append(c.heap, ListObj(c.values)),
                     addr |-> Len(c.heap) + 1]
          [] o.kind = "dict" ->
                LET c == DeepCopyValues(h, o.values, <<>>)
                IN  [heap |-> Append(c.heap, DictObj(o.keys, c.values)),
                     addr |-> Len(c.heap) + 1]
          [] o.kind = "Prompt" ->
                LET ms == DeepCopyObject(h, o.messages)
                    me == DeepCopyObject(ms.heap, o.metadata)
                IN  [heap |-> Append(me.heap, PromptObj(o.model, ms.addr, me.addr)),
                     addr |-> Len(me.heap) + 1]

\* copy.copy: a new Prompt whose fields are the fields of the old one
ShallowCopyObject(h, a) == [heap |-> Append(h, h[a]), addr |-> Len(h) + 1]

\* Prompt.deepcopy
deepcopy(h, a) == DeepCopyObject(h, a)

(***************************************************************************)
(* Prompt.format                                                           *)
(***************************************************************************)
\* str(value)
py_str(v) == IF v.type = "none" THEN <<"N", "o", "n", "e">> ELSE v.text

\* the end of the longest run of [^}\s] that starts after position i
RECURSIVE NameEnd(_, _)
NameEnd(s, i) ==
    IF i < Len(s) /\ s[i + 1] # "}" /\ ~IsSpace(s[i + 1]) THEN NameEnd(s, i + 1) ELSE i

\* re.findall(r"(?<!\{)\{([^}\s]+)\}(?!\})", content)
RECURSIVE FindPlaceholders(_, _, _)
FindPlaceholders(s, i, acc) ==
    IF i > Len(s) THEN acc
    ELSE LET e == NameEnd(s, i)
         IN  IF /\ s[i] = "{"
                /\ (i = 1 \/ s[i - 1] # "{")
                /\ e > i
                /\ e + 1 <= Len(s) /\ s[e + 1] = "}"
                /\ (e + 2 > Len(s) \/ s[e + 2] # "}")
             THEN FindPlaceholders(s, e + 2, Append(acc, SubSeq(s, i + 1, e)))
             ELSE FindPlaceholders(s, i + 1, acc)

StartsWith(s, i, t) == i + Len(t) - 1 <= Len(s) /\ SubSeq(s, i, i + Len(t) - 1) = t

\* str.replace(old, new): every occurrence, left to right, not overlapping
RECURSIVE Replace(_, _, _, _)
Replace(s, i, old, new) ==
    IF i > Len(s) THEN <<>>
    ELSE IF StartsWith(s, i, old) THEN new \o Replace(s, i + Len(old), old, new)
    ELSE <<s[i]>> \o Replace(s, i + 1, old, new)

\* for placeholder in placeholders: if placeholder in kwargs: content.replace
RECURSIVE ReplaceEach(_, _, _)
ReplaceEach(text, placeholders, kw) ==
    IF placeholders = <<>> THEN text
    ELSE LET p == Head(placeholders)
         IN  IF p \in DOMAIN kw
             THEN ReplaceEach(Replace(text, 1, <<"{">> \o p \o <<"}">>, py_str(kw[p])),
                              Tail(placeholders), kw)
             ELSE ReplaceEach(text, Tail(placeholders), kw)

format_content(text, kw) == ReplaceEach(text, FindPlaceholders(text, 1, <<>>), kw)

\* for i, msg in enumerate(new.messages): msg["content"] = content
RECURSIVE FormatMessages(_, _, _)
FormatMessages(h, items, kw) ==
    IF items = <<>> THEN h
    ELSE LET a == Addr(Head(items))
             h1 == [h EXCEPT ![a].content = format_content(h[a].content, kw)]
         IN  FormatMessages(h1, Tail(items), kw)

format(h, self, kw) ==
    LET new == deepcopy(h, self)
        items == new.heap[new.heap[new.addr].messages].items
    IN  [heap |-> FormatMessages(new.heap, items, kw), addr |-> new.addr]

(***************************************************************************)
(* The value of a Prompt: what is seen through its address.                *)
(***************************************************************************)
RECURSIVE ValueOf(_, _)
ValueOf(h, v) ==
    IF v.type # "ref" THEN v
    ELSE LET o == h[Addr(v)]
         IN  CASE o.kind = "message" -> [role |-> o.role, content |-> o.content]
               [] o.kind = "list" -> [i \in 1..Len(o.items) |-> ValueOf(h, o.items[i])]
               [] o.kind = "dict" ->
                     [i \in 1..Len(o.keys) |->
                         [key |-> o.keys[i], value |-> ValueOf(h, o.values[i])]]
               [] o.kind = "Prompt" ->
                     [model |-> o.model,
                      messages |-> ValueOf(h, Ref(o.messages)),
                      metadata |-> ValueOf(h, Ref(o.metadata))]

RECURSIVE Reach(_, _)
Reach(h, v) ==
    IF v.type # "ref" THEN {}
    ELSE LET o == h[Addr(v)]
         IN  {Addr(v)} \cup
             CASE o.kind = "message" -> {}
               [] o.kind = "list" -> UNION {Reach(h, o.items[i]) : i \in 1..Len(o.items)}
               [] o.kind = "dict" -> UNION {Reach(h, o.values[i]) : i \in 1..Len(o.values)}
               [] o.kind = "Prompt" ->
                     Reach(h, Ref(o.messages)) \cup Reach(h, Ref(o.metadata))

(***************************************************************************)
(* A Prompt self with one or two messages, formatted once; the caller then *)
(* changes the returned Prompt.                                            *)
(***************************************************************************)
self == 1

ContentSegments ==
    {<<"{">>, <<"}">>, <<"a">>, <<" ">>,
     <<"{", "a", "}">>, <<"{", "b", "}">>, <<"{", "{", "a", "}", "}">>}

Contents(n) == {Flatten(ss) : ss \in SeqsUpTo(ContentSegments, n)}

\* format(), format(a="x"), format(a=7), format(b="x"), format(a="{b}", b="x")
KeywordArguments ==
    {<<>>,
     [k \in {<<"a">>} |-> StrValue(<<"x">>)],
     [k \in {<<"a">>} |-> IntValue(7)],
     [k \in {<<"b">>} |-> StrValue(<<"x">>)],
     [k \in {<<"a">>, <<"b">>} |->
         IF k = <<"a">> THEN StrValue(<<"{", "b", "}">>) ELSE StrValue(<<"x">>)]}

\* Prompt(model="m", messages=[{user, c1}, {system, c2}],
\*        metadata={"temperature": 7, "stop": ["a"]})
InitialHeap(c1, more) ==
    <<PromptObj(StrValue(<<"m">>), 2, 3),
      ListObj(<<Ref(5)>> \o (IF more THEN <<Ref(6)>> ELSE <<>>)),
      DictObj(<<"temperature", "stop">>, <<IntValue(7), Ref(4)>>),
      ListObj(<<StrValue(<<"a">>)>>),
      MessageObj("user", c1)>>
    \o (IF more THEN <<MessageObj("system", <<"{", "b", "}">>)>> ELSE <<>>)

InitFormat ==
    /\ \E c1 \in Contents(MaxSegments), more \in BOOLEAN : heap = InitialHeap(c1, more)
    /\ kwargs \in KeywordArguments
    /\ returned = 0
    /\ original = ValueOf(heap, Ref(self))
    /\ edits = 0
    /\ NoExtract /\ NoLoad /\ NoClient

CallFormat ==
    /\ returned = 0
    /\ LET new == format(heap, self, kwargs)
       IN  heap' = new.heap /\ returned' = new.addr
    /\ UNCHANGED <<kwargs, original, edits, extractVars, loadVars, clientVars>>

\* new.messages.append({"role": "user", "content": "x"})
AppendMessage ==
    /\ returned # 0 /\ edits < MaxEdits
    /\ LET l == heap[returned].messages
           h1 == Append(heap, MessageObj("user", <<"x">>))
       IN  heap' = [h1 EXCEPT ![l].items = Append(@, Ref(Len(h1)))]
    /\ edits' = edits + 1
    /\ UNCHANGED <<kwargs, returned, original, extractVars, loadVars, clientVars>>

\* new.messages[i]["content"] = "x"
SetContent ==
    /\ returned # 0 /\ edits < MaxEdits
    /\ \E i \in 1..Len(heap[heap[returned].messages].items) :
          LET a == Addr(heap[heap[returned].messages].items[i])
          IN  heap' = [heap EXCEPT ![a].content = <<"x">>]
    /\ edits' = edits + 1
    /\ UNCHANGED <<kwargs, returned, original, extractVars, loadVars, clientVars>>

\* new.metadata["temperature"] = 0
SetMetadata ==
    /\ returned # 0 /\ edits < MaxEdits
    /\ heap' = [heap EXCEPT ![heap[returned].metadata].values[1] = IntValue(0)]
    /\ edits' = edits + 1
    /\ UNCHANGED <<kwargs, returned, original, extractVars, loadVars, clientVars>>

\* new.metadata["stop"].append("b")
AppendStop ==
    /\ returned # 0 /\ edits < MaxEdits
    /\ LET l == Addr(heap[heap[returned].metadata].values[2])
       IN  heap' = [heap EXCEPT ![l].items = Append(@, StrValue(<<"b">>))]
    /\ edits' = edits + 1
    /\ UNCHANGED <<kwargs, returned, original, extractVars, loadVars, clientVars>>

NextFormat == CallFormat \/ AppendMessage \/ SetContent \/ SetMetadata \/ AppendStop

SpecFormat == InitFormat /\ [][NextFormat]_vars

\* the contents of the messages of the Prompt at address a
ContentsOf(h, a) ==
    LET ms == ValueOf(h, Ref(h[a].messages)) IN [i \in 1..Len(ms) |-> ms[i].content]

IsBrace(c) == c \in {"{", "}"}

\* {k}, with k a key of the mapping, neither preceded nor followed by one
\* more brace, starts at position i of s
SingleBraceAt(s, i, k) ==
    /\ StartsWith(s, i, <<"{">> \o k \o <<"}">>)
    /\ (i = 1 \/ s[i - 1] # "{")
    /\ (i + Len(k) + 2 > Len(s) \/ s[i + Len(k) + 2] # "}")

\* each single-brace {k} replaced once by str(kwargs[k]), all the rest,
\* doubled braces and the inserted text included, as it is
RECURSIVE SubstituteOnce(_, _, _)
SubstituteOnce(s, i, kw) ==
    IF i > Len(s) THEN <<>>
    ELSE IF \E k \in DOMAIN kw : SingleBraceAt(s, i, k)
    THEN LET k == CHOOSE q \in DOMAIN kw : SingleBraceAt(s, i, q)
         IN  py_str(kw[k]) \o SubstituteOnce(s, i + Len(k) + 2, kw)
    ELSE <<s[i]>> \o SubstituteOnce(s, i + 1, kw)

\* s is made of characters that are no braces, of {name} and, when doubled
\* is TRUE, of {{name}}, with name a letter
RECURSIVE MadeOfPlaceholders(_, _, _)
MadeOfPlaceholders(s, i, doubled) ==
    IF i > Len(s) THEN TRUE
    ELSE IF ~IsBrace(s[i]) THEN MadeOfPlaceholders(s, i + 1, doubled)
    ELSE IF \E n \in {"a", "b"} : StartsWith(s, i, <<"{", n, "}">>)
    THEN MadeOfPlaceholders(s, i + 3, doubled)
    ELSE IF doubled /\ \E n \in {"a", "b"} : StartsWith(s, i, <<"{", "{", n, "}", "}">>)
    THEN MadeOfPlaceholders(s, i + 5, doubled)
    ELSE FALSE

BraceFreeValues(kw) ==
    \A k \in DOMAIN kw : \A i \in 1..Len(py_str(kw[k])) : ~IsBrace(py_str(kw[k])[i])

JustFormatted == returned # 0 /\ edits = 0

\* C2: format leaves every {{k}} as it is, also when k is a key and the
\* content holds {k} too, and replaces each single-brace {k} with k a key
\* exactly once by str(kwargs[k]).
PlaceholderBoundary ==
    JustFormatted /\ BraceFreeValues(kwargs) =>
        \A i \in 1..Len(original.messages) :
            MadeOfPlaceholders(original.messages[i].content, 1, TRUE) =>
                ContentsOf(heap, returned)[i]
                    = SubstituteOnce(original.messages[i].content, 1, kwargs)

\* C10: the text format inserts for a placeholder is not scanned again: with
\* a="{b}" and b a key too, the result holds {b} where {a} was.
NonRecursiveSubstitution ==
    JustFormatted =>
        \A i \in 1..Len(original.messages) :
            MadeOfPlaceholders(original.messages[i].content, 1, FALSE) =>
                ContentsOf(heap, returned)[i]
                    = SubstituteOnce(original.messages[i].content, 1, kwargs)

\* sanity: without doubled braces and without braces in the values format
\* substitutes each placeholder once
PlainSubstitution ==
    JustFormatted /\ BraceFreeValues(kwargs) =>
        \A i \in 1..Len(original.messages) :
            MadeOfPlaceholders(original.messages[i].content, 1, FALSE) =>
                ContentsOf(heap, returned)[i]
                    = SubstituteOnce(original.messages[i].content, 1, kwargs)

\* C5: format returns a new Prompt and leaves the model, the metadata, the
\* messages and every message of self as they were; the returned Prompt
\* shares no object with self, so no later change to it shows through self.
CopyOnWrite ==
    /\ ValueOf(heap, Ref(self)) = original
    /\ returned # 0 =>
          /\ returned # self
          /\ Reach(heap, Ref(returned)) \cap Reach(heap, Ref(self)) = {}

\* format has replaced a placeholder and the caller has changed the
\* returned Prompt
CopyOnWriteWitness ==
    /\ returned # 0
    /\ edits > 0
    /\ \E i \in 1..Len(original.messages) :
          /\ original.messages[i].content = <<"{", "a", "}">>
          /\ <<"a">> \in DOMAIN kwargs
    /\ ValueOf(heap, Ref(returned)).metadata # original.metadata

(***************************************************************************)
(* The file system the clients read: a directory is a sequence of file     *)
(* names (os.listdir), a file name a stem and an extension.                *)
(***************************************************************************)
DefaultPath == "./prompts"

Directories == {DefaultPath, "empty", "broken"}

listdir(path) ==
    CASE path = DefaultPath -> <<<<"a", ".prompt">>, <<"notes", ".txt">>, <<"b", ".prompt">>>>
      [] path = "empty" -> <<<<"notes", ".txt">>>>
      [] path = "broken" -> <<<<"a", ".prompt">>>>

read_file(path, stem) ==
    CASE path = DefaultPath /\ stem = "a" ->
            <<"---", "\n", "model", ":", "v", "\n", "---", "\n",
              "<user>", "a", "</user>", "\n">>
      [] path = DefaultPath /\ stem = "b" ->
            <<"---", "\n", "k", ":", "7", "\n", "---", "\n",
              "<system>", "a", "</system>", "\n">>
      [] path = "broken" -> <<"model", ":", "v", "\n">>

\* [f[:-7] for f in os.listdir(base_path) if f.endswith(".prompt")]
get_prompt_file_names(path) ==
    LET files == SelectSeq(listdir(path), LAMBDA f : f[2] = ".prompt")
    IN  [i \in 1..Len(files) |-> files[i][1]]

(***************************************************************************)
(* BaseClient                                                              *)
(***************************************************************************)
NoClientObj == [base_path |-> "", prompt_names |-> <<>>, prompts |-> <<>>]

\* BaseClient.init: load every prompt file and give the Prompt its name.
\* Prompt declares no field name: whether the assignment is accepted is up
\* to the model configuration of prompt_class (accepts_name).
RECURSIVE LoadPrompts(_, _, _, _)
LoadPrompts(path, names, accepts_name, acc) ==
    IF names = <<>> THEN [raised |-> "none", prompts |-> acc]
    ELSE LET loaded == load(read_file(path, Head(names)))
         IN  IF loaded.raised # "none" THEN [raised |-> loaded.raised, prompts |-> <<>>]
             ELSE IF ~accepts_name THEN [raised |-> "ValueError", prompts |-> <<>>]
             ELSE LoadPrompts(path, Tail(names), accepts_name,
                      SetItem(acc, Head(names),
                              [doc |-> loaded.doc, name |-> Head(names)]))

\* BaseClient.__init__(base_path)
BaseClient(base_path, accepts_name) ==
    LET path == IF base_path = "None" THEN DefaultPath ELSE base_path
    IN  IF path \notin Directories
        THEN [raised |-> "FileNotFoundError", client |-> NoClientObj]
        ELSE LET names == get_prompt_file_names(path)
                 loaded == LoadPrompts(path, names, accepts_name, <<>>)
             IN  IF loaded.raised # "none"
                 THEN [raised |-> loaded.raised, client |-> NoClientObj]
                 ELSE [raised |-> "none",
                       client |-> [base_path |-> path, prompt_names |-> names,
                                   prompts |-> loaded.prompts]]

InNames(name, names) == \E i \in 1..Len(names) : names[i] = name

\* dict.get(name)
DictGet(entries, name) ==
    (CHOOSE e \in {entries[i] : i \in 1..Len(entries)} : e.key = name).value

NoStored == [doc |-> EmptyDoc, name |-> ""]
NoResult == [kind |-> "none", instance |-> 0, stored |-> NoStored, names |-> <<>>]
InstanceResult(i) == [NoResult EXCEPT !.kind = "instance", !.instance = i]
RaisedResult(kind, names) == [NoResult EXCEPT !.kind = kind, !.names = names]
PromptResult(st) == [NoResult EXCEPT !.kind = "Prompt", !.stored = st]

\* a get that looks the name up without checking it
client_get_unchecked(client, name) ==
    IF \E i \in 1..Len(client.prompts) : client.prompts[i].key = name
    THEN PromptResult(DictGet(client.prompts, name))
    ELSE PromptResult(NoStored)

\* BaseClient.get(name)
client_get(client, name) ==
    IF InNames(name, client.prompt_names)
    THEN PromptResult(DictGet(client.prompts, name))
    ELSE RaisedResult("ValueError", client.prompt_names)

(***************************************************************************)
(* SingletonClient.instance, and promptfile.init / promptfile.get on top   *)
(* of it, called by NumThreads threads.                                    *)
(***************************************************************************)
Threads == 1..NumThreads
BasePaths == {"None", "empty", "broken", "missing"}
Names == {"a", "b", "zz"}

NoCall == [op |-> "none", base_path |-> "None", name |-> ""]

InitClient ==
    /\ cls_instance = 0
    /\ cls_lock = 0
    /\ clients = <<>>
    /\ pc = [t \in Threads |-> "idle"]
    /\ call = [t \in Threads |-> NoCall]
    /\ first_check = [t \in Threads |-> "none"]
    /\ result = [t \in Threads |-> NoResult]
    /\ calls = 0
    /\ NoExtract /\ NoLoad /\ NoFormat

\* promptfile.init(base_path): SingletonClient.instance(base_path)
CallInit(t) ==
    /\ pc[t] = "idle" /\ calls < MaxCalls
    /\ \E bp \in BasePaths :
          call' = [call EXCEPT ![t] = [op |-> "init", base_path |-> bp, name |-> ""]]
    /\ pc' = [pc EXCEPT ![t] = "check"]
    /\ calls' = calls + 1
    /\ result' = [result EXCEPT ![t] = NoResult]
    /\ first_check' = [first_check EXCEPT ![t] = "none"]
    /\ UNCHANGED <<cls_instance, cls_lock, clients, extractVars, loadVars, formatVars>>

\* promptfile.get(name): SingletonClient.instance().get(name)
CallGet(t) ==
    /\ pc[t] = "idle" /\ calls < MaxCalls
    /\ \E n \in Names :
          call' = [call EXCEPT ![t] = [op |-> "get", base_path |-> "None", name |-> n]]
    /\ pc' = [pc EXCEPT ![t] = "check"]
    /\ calls' = calls + 1
    /\ result' = [result EXCEPT ![t] = NoResult]
    /\ first_check' = [first_check EXCEPT ![t] = "none"]
    /\ UNCHANGED <<cls_instance, cls_lock, clients, extractVars, loadVars, formatVars>>

\* if cls._instance is None:
FirstCheck(t) ==
    /\ pc[t] = "check"
    /\ first_check' = [first_check EXCEPT ![t] =
                          IF cls_instance = 0 THEN "None" ELSE "instance"]
    /\ pc' = [pc EXCEPT ![t] = IF cls_instance = 0 THEN "acquire" ELSE "return"]
    /\ UNCHANGED <<cls_instance, cls_lock, clients, call, result, calls,
                   extractVars, loadVars, formatVars>>

\* with cls._lock:
Acquire(t) ==
    /\ pc[t] = "acquire"
    /\ cls_lock = 0
    /\ cls_lock' = t
    /\ pc' = [pc EXCEPT ![t] = "locked"]
    /\ UNCHANGED <<cls_instance, clients, call, first_check, result, calls,
                   extractVars, loadVars, formatVars>>

\* the check under the lock left out
SecondCheckSkipped(t) ==
    /\ pc[t] = "locked"
    /\ pc' = [pc EXCEPT ![t] = "construct"]
    /\ UNCHANGED <<cls_instance, cls_lock, clients, call, first_check, result, calls,
                   extractVars, loadVars, formatVars>>

\* if cls._instance is None: (under the lock)
SecondCheck(t) ==
    /\ pc[t] = "locked"
    /\ pc' = [pc EXCEPT ![t] = IF cls_instance = 0 THEN "construct" ELSE "release"]
    /\ UNCHANGED <<cls_instance, cls_lock, clients, call, first_check, result, calls,
                   extractVars, loadVars, formatVars>>

\* cls._instance = cls(base_path); an exception of BaseClient.__init__ leaves
\* the with block (the lock is released) and the call
Construct(t) ==
    /\ pc[t] = "construct"
    /\ \E accepts_name \in BOOLEAN :
          LET made == BaseClient(call[t].base_path, accepts_name)
          IN  IF made.raised = "none"
              THEN /\ clients' = Append(clients, made.client)
                   /\ cls_instance' = Len(clients) + 1
                   /\ pc' = [pc EXCEPT ![t] = "release"]
                   /\ UNCHANGED <<cls_lock, result>>
              ELSE /\ cls_lock' = 0
                   /\ result' = [result EXCEPT ![t] = RaisedResult(made.raised, <<>>)]
                   /\ pc' = [pc EXCEPT ![t] = "idle"]
                   /\ UNCHANGED <<clients, cls_instance>>
    /\ UNCHANGED <<call, first_check, calls, extractVars, loadVars, formatVars>>

\* the end of the with block
Release(t) ==
    /\ pc[t] = "release"
    /\ cls_lock' = 0
    /\ pc' = [pc EXCEPT ![t] = "return"]
    /\ UNCHANGED <<cls_instance, clients, call, first_check, result, calls,
                   extractVars, loadVars, formatVars>>

\* return cls._instance, and for promptfile.get the call of get(name) on it
Return(t) ==
    /\ pc[t] = "return"
    /\ result' = [result EXCEPT ![t] =
                     IF call[t].op = "get"
                     THEN [client_get(clients[cls_instance], call[t].name)
                              EXCEPT !.instance = cls_instance]
                     ELSE InstanceResult(cls_instance)]
    /\ pc' = [pc EXCEPT ![t] = "idle"]
    /\ UNCHANGED <<cls_instance, cls_lock, clients, call, first_check, calls,
                   extractVars, loadVars, formatVars>>

NextClient ==
    \E t \in Threads :
        \/ CallInit(t) \/ CallGet(t) \/ FirstCheck(t) \/ Acquire(t)
        \/ SecondCheck(t) \/ Construct(t) \/ Release(t) \/ Return(t)

SpecClient == InitClient /\ [][NextClient]_vars

GotFromClient(t) ==
    pc[t] = "idle" /\ call[t].op = "get" /\ result[t].instance # 0

\* C9: on an initialized client get(name) returns the Prompt loaded from the
\* file of that name when the name was registered, and fails with a
\* ValueError that carries the registered names otherwise; the names and
\* the mapping stay what the initialization made them.
RegistryLookup ==
    /\ \A i \in 1..Len(clients) :
          clients[i] = BaseClient(clients[i].base_path, TRUE).client
    /\ \A t \in Threads :
          GotFromClient(t) =>
              LET c == clients[result[t].instance]
                  n == call[t].name
              IN  IF InNames(n, get_prompt_file_names(c.base_path))
                  THEN /\ result[t].kind = "Prompt"
                       /\ result[t].stored.name = n
                       /\ result[t].stored.doc = load(read_file(c.base_path, n)).doc
                  ELSE /\ result[t].kind = "ValueError"
                       /\ result[t].names = get_prompt_file_names(c.base_path)

\* one thread got a registered Prompt, another the error for an unknown name
RegistryLookupWitness ==
    \E t, u \in Threads :
        /\ GotFromClient(t) /\ result[t].kind = "Prompt" /\ call[t].name = "b"
        /\ GotFromClient(u) /\ result[u].kind = "ValueError" /\ call[u].name = "zz"
        /\ result[u].names = <<"a", "b">>

====
